---- MODULE Spec2Model ----
(***************************************************************************)
(* Product catalog backend (server.js): startup schema initialisation,     *)
(* the HTTP handlers for register, login, products, settings and health,   *)
(* and the relational store they share.  A handler that queries the store  *)
(* twice is two steps, so concurrent requests interleave at the store.     *)
(* The static frontend routes and the SIGTERM handler are left out: they   *)
(* read and write none of the state below.                                 *)
(***************************************************************************)
EXTENDS Integers, Sequences, FiniteSets, Bags, TLC

\* ---------------------------------------------------------------- bounds
MaxInFlight == 2     \* Register requests that can await the store at once
MaxUserSeq == 3      \* INSERTs into users attempted in one run
MaxProductSeq == 2   \* INSERTs into products attempted in one run
MaxClock == 1        \* readings of CURRENT_TIMESTAMP range over 0..MaxClock

\* ------------------------------------------------------ program constants
VarcharMax == 255    \* VARCHAR(255) of users.username
BcryptRounds == 10   \* bcrypt.hash(password, 10)


\* A field missing from the JSON body (undefined in JS, NULL as a query parameter).
Absent == "<undefined>"
LongName == "uuuuuuuuuuuuuuuuuuuuuuuuuuuuuuuuuuuuuuuuuuuuuuuuuuuuuuuuuuuuuuuuuuuuuuuuuuuuuuuuuuuuuuuuuuuuuuuuuuuuuuuuuuuuuuuuuuuuuuuuuuuuuuuuuuuuuuuuuuuuuuuuuuuuuuuuuuuuuuuuuuuuuuuuuuuuuuuuuuuuuuuuuuuuuuuuuuuuuuuuuuuuuuuuuuuuuuuuuuuuuuuuuuuuuuuuuuuuuuuuuuuuuuuuuuuuuuuu"
Usernames == {"alice", "bob", LongName, Absent}
Passwords == {"pw1", "pw2", Absent}
ProductNames == {"Widget", Absent}
Prices == {"9.99", Absent}
Descriptions == {Absent, "A widget"}

TableOrder == <<"users", "products", "settings">>
SeedSettings == {[key |-> "theme", value |-> "dark", updated_at |-> 0]}

VARIABLES
  phase,       \* "init" (initDB running), "listening", "exited"
  exitCode,    \* argument of process.exit, "none" while the process runs
  log,         \* console lines written so far
  tables,      \* tables created by initDB, in creation order
  dbUp,        \* the database server is reachable
  clock,       \* the store's CURRENT_TIMESTAMP
  users, userSeq,        \* users rows in insertion order; users_id_seq
  products, productSeq,  \* products rows in insertion order; products_id_seq
  settings,    \* settings rows
  inflight,    \* bag of Register handler frames suspended between COUNT and INSERT
  last,        \* the most recent response sent, with the request that produced it
  regHist      \* successful Register calls in response order

vars == <<phase, exitCode, log, tables, dbUp, clock, users, userSeq,
          products, productSeq, settings, inflight, last, regHist>>

store == <<users, userSeq, products, productSeq, settings>>
proc == <<phase, exitCode, log, tables>>
env == <<dbUp, clock>>

NoResponse == [op |-> "none", status |-> 0, body |-> <<>>, args |-> <<>>, queries |-> 0]

\* ------------------------------------------------------------ the store
\* pool.query rejects when the database server is unreachable.
StoreDown == ~dbUp
StoreError == "connect ECONNREFUSED"

\* bcrypt.hash(data, rounds) salts the digest; the salt is kept in the hash.
Salts == {"salt"}
\* bcrypt.hash rejects when data == null.
BcryptHashThrows(p) == p = Absent
BcryptHash(p, salt) == [rounds |-> BcryptRounds, salt |-> salt, digest |-> <<"H", salt, p>>]
\* bcrypt.compare(data, hash); rejects when data == null.
BcryptCompareThrows(p) == p = Absent
BcryptCompare(p, h) == BcryptHash(p, h.salt) = h

\* SELECT COUNT(*) FROM users: a bigint, which pg hands over as a string.
CountUsers == ToString(Len(users))
\* countResult.rows[0].count === '0'
IsFirstUserNever(count) == FALSE
IsFirstUser(count) == count = "0"

\* Constraint checks of INSERT INTO users, "ok" when the row is accepted.
InsertUserCheckNoUnique(u) ==
  IF Len(u) > VarcharMax /\ u # Absent THEN "value too long for type character varying(255)"
  ELSE IF u = Absent THEN "null value in column username violates not-null constraint"
  ELSE "ok"
InsertUserCheckNoNotNull(u) ==
  IF Len(u) > VarcharMax /\ u # Absent THEN "value too long for type character varying(255)"
  ELSE IF \E i \in DOMAIN users : users[i].username = u /\ u # Absent
       THEN "duplicate key value violates unique constraint users_username_key"
  ELSE "ok"
InsertUserCheck(u) ==
  IF Len(u) > VarcharMax /\ u # Absent THEN "value too long for type character varying(255)"
  ELSE IF u = Absent THEN "null value in column username violates not-null constraint"
  ELSE IF \E i \in DOMAIN users : users[i].username = u
       THEN "duplicate key value violates unique constraint users_username_key"
  ELSE "ok"

\* The row INSERT INTO users would store; SERIAL draws the id before the checks.
NewUserRow(u, h, admin) ==
  [id |-> userSeq + 1, username |-> u, password |-> h, is_admin |-> admin, created_at |-> clock]
\* RETURNING id, username, is_admin
ReturningUser(row) == [id |-> row.id, username |-> row.username, is_admin |-> row.is_admin]
\* SELECT * FROM users WHERE username = $1 (a NULL parameter matches nothing)
SelectUser(u) == IF u = Absent THEN <<>> ELSE SelectSeq(users, LAMBDA r : r.username = u)
\* { id: user.id, username: user.username, is_admin: user.is_admin }
LoginUserWholeRow(row) == row
LoginUser(row) == [id |-> row.id, username |-> row.username, is_admin |-> row.is_admin]

\* Constraint checks of INSERT INTO products.
InsertProductCheck(name, price) ==
  IF name = Absent THEN "null value in column name violates not-null constraint"
  ELSE IF price = Absent THEN "null value in column price violates not-null constraint"
  ELSE "ok"
NewProductRow(name, price, description) ==
  [id |-> productSeq + 1, name |-> name, price |-> price, description |-> description,
   created_at |-> clock]

\* ORDER BY created_at DESC: rows with equal timestamps come in any order.
OrderedAsc(rows) == \A i, j \in DOMAIN rows : i < j => rows[i].created_at <= rows[j].created_at
OrderedDesc(rows) == \A i, j \in DOMAIN rows : i < j => rows[i].created_at >= rows[j].created_at
Arrangements(rows) ==
  {[i \in DOMAIN rows |-> rows[p[i]]] :
     p \in {q \in [DOMAIN rows -> DOMAIN rows] : \A i, j \in DOMAIN rows : q[i] = q[j] => i = j}}
SelectProductsAsc == {s \in Arrangements(products) : OrderedAsc(s)}
SelectProducts == {s \in Arrangements(products) : OrderedDesc(s)}
\* SELECT * FROM settings: no ORDER BY.
SetArrangements(S) ==
  {s \in [1..Cardinality(S) -> S] : \A i, j \in 1..Cardinality(S) : s[i] = s[j] => i = j}
SelectSettings == SetArrangements(settings)

\* ------------------------------------------------------------ responses
Respond(op, status, body, args, queries) ==
  last' = [op |-> op, status |-> status, body |-> body, args |-> args, queries |-> queries]
ErrorBody(msg) == [error |-> msg]

Init ==
  /\ phase = "init" /\ exitCode = "none" /\ log = {} /\ tables = <<>>
  /\ dbUp = TRUE /\ clock = 0
  /\ users = <<>> /\ userSeq = 0 /\ products = <<>> /\ productSeq = 0
  /\ settings = SeedSettings
  /\ inflight = EmptyBag
  /\ last = NoResponse /\ regHist = <<>>

\* ------------------------------------------------------------- startup
\* One CREATE TABLE IF NOT EXISTS of initDB succeeds; after the third, .then listens.
InitDBStep ==
  /\ phase = "init" /\ ~StoreDown
  /\ tables' = Append(tables, TableOrder[Len(tables) + 1])
  /\ IF Len(tables) + 1 = Len(TableOrder)
       THEN phase' = "listening" /\ log' = log \cup {"Database initialized", "running"}
       ELSE phase' = phase /\ log' = log
  /\ UNCHANGED <<exitCode, env, store, inflight, last, regHist>>

\* A CREATE TABLE query rejects: .catch logs and calls process.exit(1).
InitDBFailIgnored ==
  /\ phase = "init" /\ StoreDown
  /\ phase' = "listening" /\ log' = log \cup {"running"}
  /\ UNCHANGED <<exitCode, tables, env, store, inflight, last, regHist>>
InitDBFail ==
  /\ phase = "init" /\ StoreDown
  /\ phase' = "exited" /\ exitCode' = 1 /\ log' = log \cup {"Failed to start"}
  /\ UNCHANGED <<tables, env, store, inflight, last, regHist>>

\* ---------------------------------------------------------- environment
DbDown == dbUp /\ phase # "exited" /\ dbUp' = FALSE
          /\ UNCHANGED <<proc, clock, store, inflight, last, regHist>>
DbUp == ~dbUp /\ phase # "exited" /\ dbUp' = TRUE
        /\ UNCHANGED <<proc, clock, store, inflight, last, regHist>>
Tick == clock < MaxClock /\ phase = "listening" /\ clock' = clock + 1
        /\ UNCHANGED <<proc, dbUp, store, inflight, last, regHist>>

Listening == phase = "listening"
NoneInFlight == inflight = EmptyBag

\* --------------------------------------------------- POST /api/register
\* The request arrives; the handler destructures the body, awaits bcrypt.hash and
\* then the COUNT query, and is suspended on the INSERT it has sent.
RegisterCount(u, p) ==
  /\ Listening
  /\ BagCardinality(inflight) < MaxInFlight
  /\ userSeq + BagCardinality(inflight) < MaxUserSeq
  /\ LET args == [username |-> u, password |-> p]
     IN IF BcryptHashThrows(p)
          THEN /\ Respond("register", 400, ErrorBody("data and salt arguments required"), args, 0)
               /\ UNCHANGED inflight
          ELSE IF StoreDown
            THEN /\ Respond("register", 400, ErrorBody(StoreError), args, 1)
                 /\ UNCHANGED inflight
            ELSE /\ \E salt \in Salts :
                      inflight' = inflight (+) SetToBag({[username |-> u, password |-> p,
                                     hashedPassword |-> BcryptHash(p, salt),
                                     countResult |-> CountUsers,
                                     isFirstUser |-> IsFirstUser(CountUsers)]})
                 /\ UNCHANGED last
  /\ UNCHANGED <<proc, env, store, regHist>>

\* await pool.query('INSERT INTO users ... RETURNING id, username, is_admin'), then
\* the response.
RegisterInsert(f) ==
  /\ Listening /\ BagIn(f, inflight)
  /\ inflight' = inflight (-) SetToBag({f})
  /\ LET args == [username |-> f.username, password |-> f.password,
                  countResult |-> f.countResult]
         row == NewUserRow(f.username, f.hashedPassword, f.isFirstUser)
         chk == InsertUserCheck(f.username)
     IN IF StoreDown
          THEN /\ Respond("register", 400, ErrorBody(StoreError), args, 2)
               /\ UNCHANGED <<users, userSeq, regHist>>
          ELSE /\ userSeq' = userSeq + 1
               /\ IF chk = "ok"
                    THEN /\ users' = Append(users, row)
                         /\ Respond("register", 200,
                                    [success |-> TRUE, user |-> ReturningUser(row)], args, 2)
                         /\ regHist' = Append(regHist, [username |-> f.username,
                                                        password |-> f.password,
                                                        user |-> ReturningUser(row)])
                    ELSE /\ Respond("register", 400, ErrorBody(chk), args, 2)
                         /\ UNCHANGED <<users, regHist>>
  /\ UNCHANGED <<proc, env, products, productSeq, settings>>

\* ------------------------------------------------------ POST /api/login
\* SELECT by username, then bcrypt.compare against the row already fetched.
Login(u, p) ==
  /\ Listening
  /\ LET args == [username |-> u, password |-> p]
         rows == SelectUser(u)
     IN IF StoreDown
          THEN Respond("login", 400, ErrorBody(StoreError), args, 1)
          ELSE IF Len(rows) = 0
            THEN Respond("login", 401, ErrorBody("Invalid credentials"), args, 1)
            ELSE IF BcryptCompareThrows(p)
              THEN Respond("login", 400, ErrorBody("data and hash arguments required"), args, 1)
              ELSE IF ~BcryptCompare(p, rows[1].password)
                THEN Respond("login", 401, ErrorBody("Invalid credentials"), args, 1)
                ELSE Respond("login", 200, [success |-> TRUE, user |-> LoginUser(rows[1])],
                             args, 1)
  /\ UNCHANGED <<proc, env, store, inflight, regHist>>

\* ---------------------------------------------------------- /api/products
ProductsList ==
  /\ Listening
  /\ IF StoreDown
       THEN Respond("products.list", 400, ErrorBody(StoreError), <<>>, 1)
       ELSE \E rows \in SelectProducts : Respond("products.list", 200, rows, <<>>, 1)
  /\ UNCHANGED <<proc, env, store, inflight, regHist>>

ProductsCreate(name, price, description) ==
  /\ Listening
  /\ productSeq < MaxProductSeq
  /\ LET args == [name |-> name, price |-> price, description |-> description]
         row == NewProductRow(name, price, description)
         chk == InsertProductCheck(name, price)
     IN IF StoreDown
          THEN /\ Respond("products.create", 400, ErrorBody(StoreError), args, 1)
               /\ UNCHANGED <<products, productSeq>>
          ELSE /\ productSeq' = productSeq + 1
               /\ IF chk = "ok"
                    THEN products' = Append(products, row)
                         /\ Respond("products.create", 200, row, args, 1)
                    ELSE UNCHANGED products
                         /\ Respond("products.create", 400, ErrorBody(chk), args, 1)
  /\ UNCHANGED <<proc, env, users, userSeq, settings, inflight, regHist>>

\* ---------------------------------------------------------- /api/settings
SettingsList ==
  /\ Listening
  /\ IF StoreDown
       THEN Respond("settings.list", 400, ErrorBody(StoreError), <<>>, 1)
       ELSE \E rows \in SelectSettings : Respond("settings.list", 200, rows, <<>>, 1)
  /\ UNCHANGED <<proc, env, store, inflight, regHist>>

\* ---------------------------------------------------------------- /health
HealthPingsStore ==
  /\ Listening
  /\ IF StoreDown
       THEN Respond("health", 400, ErrorBody(StoreError), <<>>, 1)
       ELSE Respond("health", 200, [status |-> "healthy"], <<>>, 1)
  /\ UNCHANGED <<proc, env, store, inflight, regHist>>
Health ==
  /\ Listening
  /\ Respond("health", 200, [status |-> "healthy"], <<>>, 0)
  /\ UNCHANGED <<proc, env, store, inflight, regHist>>

\* ------------------------------------------------------- specifications
Startup == InitDBStep \/ InitDBFail
Outage == DbDown \/ DbUp
Credentials ==
  \/ \E u \in Usernames, p \in Passwords : RegisterCount(u, p)
  \/ \E u \in Usernames, p \in Passwords : Login(u, p)
Catalog ==
  \/ ProductsList
  \/ \E n \in ProductNames, pr \in Prices, d \in Descriptions : ProductsCreate(n, pr, d)
  \/ SettingsList
Resume == \E f \in BagToSet(inflight) : RegisterInsert(f)

\* The credential store under concurrent requests: a request may arrive while
\* others await the store.
Next == Startup \/ Outage \/ Credentials \/ Health \/ Resume
Spec == Init /\ [][Next]_vars

\* Non-overlapping calls on every endpoint: a request is sent only when none is
\* in flight.
NextSeq ==
  \/ Startup \/ Outage \/ Resume
  \/ NoneInFlight /\ \E u \in Usernames, p \in Passwords : RegisterCount(u, p)
  \/ NoneInFlight /\ \E u \in Usernames, p \in Passwords : Login(u, p)
  \/ NoneInFlight /\ ProductsList
  \/ NoneInFlight /\ \E n \in ProductNames, pr \in Prices, d \in Descriptions :
                        ProductsCreate(n, pr, d)
  \/ NoneInFlight /\ SettingsList
  \/ NoneInFlight /\ Health
SpecSeq == Init /\ [][NextSeq]_vars

\* The product and settings repositories with the store's clock.
NextCatalog == Startup \/ Outage \/ Tick \/ Catalog \/ Health
SpecCatalog == Init /\ [][NextCatalog]_vars

\* ----------------------------------------------------------- properties
\* A response that only reports the store as unreachable.
IsStoreError(r) == r.status = 400 /\ r.body = ErrorBody(StoreError)
IsErrorBody(b) == DOMAIN b = {"error"}
Registered(u) == {i \in DOMAIN regHist : regHist[i].username = u}
\* The users table holds exactly the rows the successful Register calls returned,
\* each with a hash of the password that call was given.
TableMatchesHistory ==
  /\ Len(users) = Len(regHist)
  /\ \A i \in DOMAIN users :
       /\ [id |-> users[i].id, username |-> users[i].username,
           is_admin |-> users[i].is_admin] = regHist[i].user
       /\ BcryptCompare(regHist[i].password, users[i].password)

\* C1: in every reachable state, concurrent registrations included, exactly the
\* first inserted users row has is_admin = true, so at most one row is an admin.
OnlyFirstUserIsAdmin == \A i \in DOMAIN users : users[i].is_admin <=> i = 1

\* C2: with non-overlapping Register calls on an empty table, the first successful
\* Register returns is_admin = true and every later one returns is_admin = false,
\* however many failed Register calls come before or between them.
SequentialFirstRegisterIsAdmin ==
  \A i \in DOMAIN regHist : regHist[i].user.is_admin <=> i = 1
\* Two registrations succeeded after an earlier one failed at the INSERT.
SequentialFirstRegisterIsAdminWitness ==
  /\ Len(regHist) = 2 /\ regHist[1].user.id = 2
  /\ regHist[1].user.is_admin /\ ~regHist[2].user.is_admin

\* C3: what a Register with the given credentials must return, as a function of
\* whether its username was registered before.
RegisterOutcome(credentialsOk) ==
  /\ \A i, j \in DOMAIN users : users[i].username = users[j].username => i = j
  /\ TableMatchesHistory
  /\ (last.op = "register" /\ credentialsOk /\ ~IsStoreError(last)) =>
       IF last.status = 200
         THEN /\ last.body.user.id \in 1..MaxUserSeq
              /\ Registered(last.args.username) = {Len(regHist)}
              /\ regHist[Len(regHist)].user = last.body.user
         ELSE /\ last.status = 400 /\ IsErrorBody(last.body)
              /\ Registered(last.args.username) # {}
\* C3 (as claimed): a Register with a present username and password succeeds with a
\* non-null id when the username is not in the table; a later Register with the same
\* username gets a 400 {error}, adds no row and leaves the existing row as it was;
\* no two rows share a username.
RegisterPresentUsername ==
  RegisterOutcome(last.args.username # Absent /\ last.args.password # Absent)
\* C3 (amended): the same for a present password and a present username of at most
\* 255 characters, the width of the username column.
RegisterFittingUsername ==
  RegisterOutcome(/\ last.args.username # Absent /\ last.args.password # Absent
                  /\ Len(last.args.username) <= VarcharMax)
\* A Register was refused for a username registered earlier with another password.
RegisterFittingUsernameWitness ==
  /\ last.op = "register" /\ last.status = 400 /\ ~IsStoreError(last)
  /\ \E i \in DOMAIN regHist : /\ regHist[i].username = last.args.username
                               /\ regHist[i].password # last.args.password
                               /\ last.args.password # Absent

\* C4: every login that does not succeed answers 401 {error: "Invalid credentials"},
\* whether the username is unknown or known with a password that does not verify,
\* for any password input including an absent one (responses that only report the
\* store as unreachable aside).
LoginFailureUniform ==
  (last.op = "login" /\ last.status # 200 /\ ~IsStoreError(last)) =>
     last.status = 401 /\ last.body = ErrorBody("Invalid credentials")

\* C5: once Register(u, p) has returned {id, username, is_admin}, whatever register,
\* login and product operations follow, every login with (u, p) the store answers
\* succeeds with the same id, username and is_admin, and neither response carries
\* the password or its hash.
LoginAfterRegister ==
  /\ (last.op \in {"register", "login"} /\ last.status = 200) =>
       /\ DOMAIN last.body = {"success", "user"}
       /\ DOMAIN last.body.user = {"id", "username", "is_admin"}
  /\ (last.op = "login" /\ ~IsStoreError(last)) =>
       \A i \in DOMAIN regHist :
         (regHist[i].username = last.args.username /\ regHist[i].password = last.args.password)
           => last.status = 200 /\ last.body.user = regHist[i].user
\* A login succeeded after a second registration and a product creation.
LoginAfterRegisterWitness ==
  /\ last.op = "login" /\ last.status = 200
  /\ Len(regHist) = 2 /\ products # <<>>
  /\ last.body.user = regHist[1].user

\* C6: what Product List returns: every stored row once, nothing else, in
\* non-increasing order of created_at; a Product Create returns the row it stored.
ListsEveryProductNewestFirst ==
  /\ (last.op = "products.create" /\ last.status = 200) =>
       products # <<>> /\ last.body = products[Len(products)]
  /\ (last.op = "products.list" /\ last.status = 200) =>
       /\ Len(last.body) = Len(products)
       /\ {last.body[i] : i \in DOMAIN last.body} = {products[i] : i \in DOMAIN products}
       /\ \A i, j \in DOMAIN last.body :
            i < j => last.body[i].created_at >= last.body[j].created_at
\* C6 (as claimed): ... and the most recently created product is the first element.
ProductsListMostRecentFirst ==
  /\ ListsEveryProductNewestFirst
  /\ (last.op = "products.list" /\ last.status = 200 /\ products # <<>>) =>
       last.body[1] = products[Len(products)]
\* C6 (amended): ... and the first element carries the greatest created_at; it is
\* the most recently created product whenever that product's created_at is
\* strictly greater than every other's.
ProductsListGreatestTimestampFirst ==
  /\ ListsEveryProductNewestFirst
  /\ (last.op = "products.list" /\ last.status = 200 /\ products # <<>>) =>
       /\ \A i \in DOMAIN products : last.body[1].created_at >= products[i].created_at
       /\ (\A i \in 1..(Len(products) - 1) :
             products[i].created_at < products[Len(products)].created_at)
            => last.body[1] = products[Len(products)]
\* A list of two products created at different times.
ProductsListGreatestTimestampFirstWitness ==
  /\ last.op = "products.list" /\ last.status = 200
  /\ Len(products) = 2 /\ products[1].created_at < products[2].created_at
  /\ last.body[1] = products[2]

\* C7: the process listens, and serves requests, only after users, products and
\* settings have been created in that order; a create-table step that fails makes
\* the process exit with status 1 without ever listening.
StartupBeforeListening ==
  /\ [](/\ tables = SubSeq(TableOrder, 1, Len(tables))
        /\ (phase = "listening" \/ last.op # "none" \/ "running" \in log)
             => tables = TableOrder
        /\ "Failed to start" \in log
             => phase = "exited" /\ exitCode = 1 /\ last.op = "none" /\ "running" \notin log)
  /\ [][(phase = "init" /\ StoreDown /\ phase' # phase)
          => (phase' = "exited" /\ exitCode' = 1 /\ "Failed to start" \in log')]_vars
  /\ [][phase = "exited" => phase' = "exited"]_vars
\* The third create-table step failed after the first two succeeded.
StartupBeforeListeningWitness ==
  phase = "exited" /\ exitCode = 1 /\ tables = <<"users", "products">>

\* C8: once listening, GET /health answers 200 {status: "healthy"} whether or not
\* the store is reachable, issues no store query and changes nothing in the store.
HealthIgnoresStore ==
  /\ [](last.op = "health" =>
          last.status = 200 /\ last.body = [status |-> "healthy"] /\ last.queries = 0)
  /\ [][Health => UNCHANGED <<store, env>>]_vars
  /\ [](phase = "listening" => ENABLED Health)
\* /health answered while the store was unreachable.
HealthIgnoresStoreWitness ==
  last.op = "health" /\ last.status = 200 /\ StoreDown

\* C9: a Register without a username or without a password gets a 400 {error},
\* inserts no row, leaves the process serving, and does not use up the promotion
\* of the first registered user.
RegisterMissingField ==
  /\ (last.op = "register" /\ (last.args.username = Absent \/ last.args.password = Absent))
       => last.status = 400 /\ IsErrorBody(last.body)
  /\ TableMatchesHistory
  /\ \A i \in DOMAIN regHist : regHist[i].username # Absent /\ regHist[i].password # Absent
  /\ last.op # "none" => phase = "listening"
  /\ regHist # <<>> => regHist[1].user.is_admin
\* A Register without a username was refused by the INSERT, and the next Register
\* became the admin.
RegisterMissingFieldWitness ==
  /\ Len(regHist) = 1 /\ regHist[1].user.id = 2 /\ regHist[1].user.is_admin
  /\ last.op = "register" /\ last.status = 400 /\ last.args.username = Absent
  /\ last.queries = 2

\* C10: whenever the users table is non-empty its earliest row is an admin, and a
\* Register whose COUNT saw a non-zero count never inserts an admin row, concurrent
\* registrations included.
FirstRowIsAdmin ==
  /\ users # <<>> => users[1].is_admin
  /\ \A f \in BagToSet(inflight) : f.countResult # "0" => ~f.isFirstUser
  /\ (last.op = "register" /\ last.status = 200 /\ last.args.countResult # "0")
       => ~last.body.user.is_admin
\* The second row came from a Register that had counted zero users.
FirstRowIsAdminWitness ==
  /\ Len(users) = 2 /\ users[1].is_admin
  /\ last.op = "register" /\ last.status = 200 /\ last.args.countResult = "0"
====
